---- MODULE Spec2Model ----
(***************************************************************************)
(* Petty Cash Manager (src/app.py): the worksheet 'data' shared by the     *)
(* browser sessions, the script run of each session (load at the top of    *)
(* the script, the widgets, the handler of the button that was clicked)    *)
(* and the cashbook computation.                                           *)
(*                                                                         *)
(* A cell of the "date" column is a record [k, y, m, d]:                   *)
(*   k = "iso"    the text YYYY-MM-DD                                      *)
(*   k = "obj"    a datetime.date object (the data editor's column)        *)
(*   k = "bad"    a non-empty text no date parser accepts                  *)
(*   k = "natstr" one of the texts "NaT", "nan", "None"                    *)
(*   k = "empty"  the empty text                                           *)
(*   k = "null"   a missing value (None / NaN / NaT)                       *)
(* Amounts are whole numbers of currency units.                            *)
(***************************************************************************)
EXTENDS Integers, Sequences, FiniteSets, TLC

VARIABLES
    sheet,      \* rows of worksheet 'data' below the header row
    pc,         \* per session: "idle", "rendered" (script top ran), "saving"
    widgets,    \* per session: the widget values of the current script run
    pending,    \* per session: the DataFrame the handler is about to save
    msg,        \* per session: the st.error / st.success / st.warning shown
    runs,       \* script runs started so far, over all sessions
    cb_in,      \* cashbook view: the inputs of the computation
    cb_out      \* cashbook view: what the script computed from cb_in

vars == <<sheet, pc, widgets, pending, msg, runs, cb_in, cb_out>>

\* ------------------------------------------------------------ bounds
\* script runs started, over all sessions
MaxRuns == 3
\* rows of the dataset the cashbook view is computed from
MaxCbRows == 3

Sessions == {1, 2}

\* ------------------------------------------------------------ cells
Iso(y, m, d) == [k |-> "iso", y |-> y, m |-> m, d |-> d]
DateObj(y, m, d) == [k |-> "obj", y |-> y, m |-> m, d |-> d]
BadText == [k |-> "bad", y |-> 0, m |-> 0, d |-> 0]
NaTStr == [k |-> "natstr", y |-> 0, m |-> 0, d |-> 0]
EmptyStr == [k |-> "empty", y |-> 0, m |-> 0, d |-> 0]
Null == [k |-> "null", y |-> 0, m |-> 0, d |-> 0]

\* pandas NaT, the result of a failed parse
NaT == [y |-> 0, m |-> 0, d |-> 0]

COLUMNS == <<"date", "remark", "category", "mode", "cash_in", "cash_out", "attachment_path">>

\* pd.to_datetime(cell, errors="coerce")
to_datetime(c) ==
    IF c.k \in {"iso", "obj"} THEN [y |-> c.y, m |-> c.m, d |-> c.d] ELSE NaT

\* dt.dt.date.astype(str): the ISO text of a timestamp, "NaT" for NaT
date_astype_str(ts) ==
    IF ts = NaT THEN NaTStr ELSE Iso(ts.y, ts.m, ts.d)

\* df.loc[df["date"] == "NaT", "date"] = ""
blank_nat(c) == IF c = NaTStr THEN EmptyStr ELSE c

get_previous_period(year, month) ==
    IF month = 1 THEN <<year - 1, 12>> ELSE <<year, month - 1>>

\* a mask that joins the two comparisons with | instead of &
in_year_or_month(r, year, month) ==
    LET dt == to_datetime(r.date) IN dt.y = year \/ dt.m = month

\* (dt.dt.year == year) & (dt.dt.month == month) for one row
in_month(r, year, month) ==
    LET dt == to_datetime(r.date) IN dt.y = year /\ dt.m = month

filter_month_df(df, year, month) ==
    SelectSeq(df, LAMBDA r : in_month(r, year, month))

\* a selection that also loses the rows whose date is no date
dated_not_month_df(df, year, month) ==
    SelectSeq(df, LAMBDA r : to_datetime(r.date) # NaT /\ ~in_month(r, year, month))

\* df[~mask_month]
not_month_df(df, year, month) ==
    SelectSeq(df, LAMBDA r : ~in_month(r, year, month))

\* df[mask_month].index: the positions of the month's rows, ascending
RECURSIVE month_idx_from(_, _, _, _)
month_idx_from(df, year, month, i) ==
    IF i > Len(df) THEN <<>>
    ELSE (IF in_month(df[i], year, month) THEN <<i>> ELSE <<>>)
         \o month_idx_from(df, year, month, i + 1)

month_idx(df, year, month) == month_idx_from(df, year, month, 1)

\* ------------------------------------------------------------ worksheet
\* df["date"].astype(str), then "NaT"/"nan"/"None" -> ""
load_date(c) ==
    IF c.k \in {"natstr", "null"} THEN EmptyStr
    ELSE IF c.k = "obj" THEN Iso(c.y, c.m, c.d) ELSE c

load_all_data_from_sheet(ws) ==
    [i \in DOMAIN ws |-> [ws[i] EXCEPT !.date = load_date(@)]]

\* df_all[COLUMNS].astype(str) of the date column, as the worksheet keeps it
save_date(c) ==
    IF c.k = "obj" THEN Iso(c.y, c.m, c.d)
    ELSE IF c.k = "null" THEN NaTStr ELSE c

\* ws.clear(); ws.append_row(COLUMNS); ws.append_rows(rows)
save_all_data_to_sheet(df_all) ==
    [i \in DOMAIN df_all |-> [df_all[i] EXCEPT !.date = save_date(@)]]

\* ws.append_row(values)
append_row_to_sheet(ws, row) == Append(ws, [row EXCEPT !.date = save_date(@)])

\* ------------------------------------------------------------ cashbook
\* date_ts order of sort_values: ascending, NaT last (na_position="last")
ts_le(a, b) ==
    IF b = NaT THEN TRUE
    ELSE IF a = NaT THEN FALSE
    ELSE \/ a.y < b.y
         \/ a.y = b.y /\ a.m < b.m
         \/ a.y = b.y /\ a.m = b.m /\ a.d <= b.d

\* the orderings of the positions in S
RECURSIVE Perms(_)
Perms(S) ==
    IF S = {} THEN {<<>>}
    ELSE UNION {{<<x>> \o p : p \in Perms(S \ {x})} : x \in S}

\* df.sort_values("date_ts"): the default kind is quicksort, which is not
\* stable, so every ordering that is ascending by date_ts is an outcome
sort_values(df) ==
    {[i \in 1..Len(df) |-> df[p[i]]] : p \in
        {q \in Perms(DOMAIN df) : \A i, j \in 1..Len(df) :
            i < j => ts_le(to_datetime(df[q[i]].date), to_datetime(df[q[j]].date))}}

\* df[col].sum()
RECURSIVE col_sum(_, _)
col_sum(df, col) ==
    IF df = <<>> THEN 0
    ELSE df[Len(df)][col] + col_sum(SubSeq(df, 1, Len(df) - 1), col)

\* df[col].cumsum(): the k-th prefix sum, accumulated front to back
RECURSIVE cumsum_from(_, _, _, _, _)
cumsum_from(df, col, k, i, acc) ==
    IF i > k THEN acc ELSE cumsum_from(df, col, k, i + 1, acc + df[i][col])

cumsum(df, col, k) == cumsum_from(df, col, k, 1, 0)

\* a running balance that leaves the row itself out
BalanceBefore(df, opening_balance, k) ==
    opening_balance + (cumsum(df, "cash_in", k - 1) - cumsum(df, "cash_out", k - 1))

\* the k-th value of the Balance column
Balance(df, opening_balance, k) ==
    opening_balance + (cumsum(df, "cash_in", k) - cumsum(df, "cash_out", k))

\* compute_cashbook(df, opening_balance), `sorted` being the outcome of
\* df.sort_values("date_ts")
compute_cashbook(df, opening_balance, sorted) ==
    IF df = <<>>
    THEN [rows |-> <<>>, balance |-> <<>>, total_in |-> 0, total_out |-> 0,
          final_balance |-> opening_balance]
    ELSE [rows |-> sorted,
          balance |-> [k \in 1..Len(sorted) |-> Balance(sorted, opening_balance, k)],
          total_in |-> col_sum(sorted, "cash_in"),
          total_out |-> col_sum(sorted, "cash_out"),
          final_balance |-> opening_balance + col_sum(sorted, "cash_in")
                                            - col_sum(sorted, "cash_out")]

\* auto_opening: the previous period's cashbook, computed with opening_balance=0.0
auto_opening(df_all, year, month, sorted_prev) ==
    LET prev == get_previous_period(year, month)
        df_prev_month == filter_month_df(df_all, prev[1], prev[2])
    IN compute_cashbook(df_prev_month, 0, sorted_prev).final_balance

\* ------------------------------------------------------------ import normalizer
\* a missing text value (NaN in an object column), distinct from every text
NaN == "<NaN>"

col_map ==
    [h \in {"date", "remark", "narration", "description", "category", "mode",
            "payment mode", "cash in", "cash_in", "cashin", "cash out", "cash_out",
            "cashout", "attachment_path", "attachment", "file"} |->
        CASE h = "date" -> "date"
          [] h \in {"remark", "narration", "description"} -> "remark"
          [] h = "category" -> "category"
          [] h \in {"mode", "payment mode"} -> "mode"
          [] h \in {"cash in", "cash_in", "cashin"} -> "cash_in"
          [] h \in {"cash out", "cash_out", "cashout"} -> "cash_out"
          [] h \in {"attachment_path", "attachment", "file"} -> "attachment_path"]

\* col.strip().lower() of the headers the import files carry
strip_lower ==
    [h \in {"Date", "date", "Remark", "narration", "Cash In", "Cash Out", "Notes",
            "File", "Payment Mode", "Category"} |->
        CASE h \in {"Date", "date"} -> "date"
          [] h = "Remark" -> "remark"
          [] h = "narration" -> "narration"
          [] h = "Cash In" -> "cash in"
          [] h = "Cash Out" -> "cash out"
          [] h = "Notes" -> "notes"
          [] h = "File" -> "file"
          [] h = "Payment Mode" -> "payment mode"
          [] h = "Category" -> "category"]

\* the raw column whose values end up in df[target]: the loop assigns
\* df[target] = raw_df[col] for each mapped col in turn, so the last one wins;
\* 0 when no column of the file maps to target
source_col(columns, target) ==
    LET S == {i \in DOMAIN columns :
                 /\ strip_lower[columns[i]] \in DOMAIN col_map
                 /\ col_map[strip_lower[columns[i]]] = target}
    IN IF S = {} THEN 0 ELSE CHOOSE i \in S : \A j \in S : j <= i

\* Series.astype(str): a missing value becomes the text "nan"
astype_str(v) == IF v = NaN THEN "nan" ELSE v

\* Series.fillna(default) after astype(str): nothing is missing any more
fillna(v, default) == IF v = NaN THEN default ELSE v

\* Series.isna() of one cell
isna(c) == c.k = "null"

\* df starts without rows and takes the index of the first column assigned to
\* it: a file none of whose headers is mapped leaves it without rows
normalize_imported_dataframe(raw_df) ==
    IF \A t \in {COLUMNS[n] : n \in DOMAIN COLUMNS} : source_col(raw_df.columns, t) = 0
    THEN <<>>
    ELSE
    [i \in DOMAIN raw_df.data |->
        LET r == raw_df.data[i]
            src(t) == source_col(raw_df.columns, t)
        IN [date |-> blank_nat(date_astype_str(to_datetime(
                        IF src("date") = 0 THEN Null ELSE r[src("date")]))),
            remark |-> fillna(astype_str(
                        IF src("remark") = 0 THEN NaN ELSE r[src("remark")]), ""),
            category |-> fillna(astype_str(
                        IF src("category") = 0 THEN NaN ELSE r[src("category")]), "Other"),
            mode |-> fillna(astype_str(
                        IF src("mode") = 0 THEN NaN ELSE r[src("mode")]), "Cash"),
            cash_in |-> IF src("cash_in") = 0 THEN 0 ELSE r[src("cash_in")],
            cash_out |-> IF src("cash_out") = 0 THEN 0 ELSE r[src("cash_out")],
            attachment_path |-> fillna(astype_str(
                        IF src("attachment_path") = 0 THEN NaN
                        ELSE r[src("attachment_path")]), "")]]

\* norm_df["date"].isna().all(): True of a frame without rows
no_valid_dates(norm_df) == \A i \in DOMAIN norm_df : isna(norm_df[i].date)

\* ------------------------------------------------------------ inputs
\* the periods the sidebar is set to
Periods == {<<2024, 12>>, <<2025, 1>>}

\* date.today()
Today == DateObj(2025, 1, 2)

\* the worksheet as the sessions find it: empty, or holding a row written by
\* hand whose date cell is no date
InitialSheets ==
    {<<>>,
     <<[date |-> BadText, remark |-> "old", category |-> "Other", mode |-> "Cash",
        cash_in |-> 4, cash_out |-> 0, attachment_path |-> ""]>>}

\* submissions of the form "add_entry"
AddForms ==
    {[tx_date_obj |-> DateObj(2024, 12, 1), mode |-> "Cash", tx_type |-> "Cash in",
      remark |-> "tea", category_select |-> "Tea break", custom_category |-> "Misc",
      amount |-> 5, attachment_file |-> ""],
     [tx_date_obj |-> DateObj(2025, 1, 1), mode |-> "UPI", tx_type |-> "Cash out",
      remark |-> "Team lunch", category_select |-> "Other", custom_category |-> "",
      amount |-> 2, attachment_file |-> "bill.png"],
     [tx_date_obj |-> DateObj(2025, 1, 2), mode |-> "Cash", tx_type |-> "Cash in",
      remark |-> "tea", category_select |-> "Tea break", custom_category |-> "",
      amount |-> 0, attachment_file |-> ""]}

\* the uploads of "import_file"; "" is no file chosen
ImportFiles == {"", "nodates.csv", "mixed.csv", "empty.csv"}

\* pd.read_csv(import_file)
read_csv(name) ==
    CASE name = "nodates.csv" ->
            [columns |-> <<"Date", "Remark", "Cash In", "Notes">>,
             data |-> << <<BadText, "fuel", 7, "memo">> >>]
      [] name = "mixed.csv" ->
            [columns |-> <<"date", "narration", "Cash Out", "File">>,
             data |-> << <<Iso(2025, 1, 1), "rent", 3, "rent.pdf">>,
                         <<Iso(2024, 12, 2), "water", 1, "">> >>]
      [] name = "empty.csv" ->
            [columns |-> <<"Date", "Remark">>, data |-> <<>>]

\* what st.data_editor returns: the frame shown, one cell of it changed or none
data_editor(df_editable) ==
    {df_editable}
    \cup {[df_editable EXCEPT ![i].date = DateObj(2024, 12, 2)] : i \in DOMAIN df_editable}
    \cup {[df_editable EXCEPT ![i].date = Null] : i \in DOMAIN df_editable}
    \cup {[df_editable EXCEPT ![i].cash_in = 9] : i \in DOMAIN df_editable}

\* ------------------------------------------------------------ messages
AmountError == "Amount must be greater than zero."
SavedOk == "Transaction saved successfully!"
DuplicatedOk == "Last entry duplicated for today!"
TickFirst == "Tick the confirmation checkbox first."
DeletedOk == "All entries for this month have been deleted."
MismatchError == "Row count mismatch while saving. Try reloading the app and editing again."
TableOk == "Table changes saved successfully!"
ChooseFile == "Please choose a file to import."
NoValidDates == "No valid dates found in imported file. Please check the Date column."
ImportedOk == "Imported rows into this month."

NoForm ==
    [tx_date_obj |-> Null, mode |-> "", tx_type |-> "", remark |-> "",
     category_select |-> "", custom_category |-> "", amount |-> 0, attachment_file |-> ""]

NoWidgets ==
    [button |-> "", year |-> 0, month |-> 0, edited_df |-> <<>>, last |-> <<>>,
     form |-> NoForm, import_file |-> "", replace_existing |-> FALSE]

\* ------------------------------------------------------------ add transaction
FOOD_KEYWORDS == {"breakfast", "lunch", "dinner", "food", "meal", "snacks"}

\* the FOOD_KEYWORDS found in remark.lower(), for the remarks the forms carry
keywords_in(remark) == IF remark = "Team lunch" THEN {"lunch"} ELSE {}

\* os.path.join(ATTACH_DIR, safe_name) for the forms that carry a file
save_path(form) ==
    IF form.remark = "Team lunch" /\ form.attachment_file = "bill.png"
    THEN "attachments/20250101_Team_lunch.png"
    ELSE "attachments/other"

\* the row the form handler builds
form_row(form) ==
    [date |-> Iso(form.tx_date_obj.y, form.tx_date_obj.m, form.tx_date_obj.d),
     remark |-> form.remark,
     category |-> IF form.custom_category # "" THEN form.custom_category
                  ELSE IF keywords_in(form.remark) \cap FOOD_KEYWORDS # {} THEN "Food"
                  ELSE form.category_select,
     mode |-> form.mode,
     cash_in |-> IF form.tx_type = "Cash in" THEN form.amount ELSE 0,
     cash_out |-> IF form.tx_type = "Cash out" THEN form.amount ELSE 0,
     attachment_path |-> IF form.attachment_file # "" THEN save_path(form) ELSE ""]

\* an amount check that lets zero through
amount_negative(amount) == amount < 0

\* the amount check of the form handler
amount_rejected(amount) == amount <= 0

\* script top with the form "add_entry" submitted
AddRender(s) ==
    /\ pc[s] = "idle"
    /\ runs < MaxRuns
    /\ runs' = runs + 1
    /\ \E form \in AddForms :
        widgets' = [widgets EXCEPT ![s] = [NoWidgets EXCEPT !.button = "add", !.form = form]]
    /\ pc' = [pc EXCEPT ![s] = "rendered"]
    /\ msg' = [msg EXCEPT ![s] = ""]
    /\ UNCHANGED <<sheet, pending, cb_in, cb_out>>

\* "Save transaction": the amount check, then one ws.append_row
AddEntry(s) ==
    /\ pc[s] = "rendered"
    /\ widgets[s].button = "add"
    /\ IF amount_rejected(widgets[s].form.amount)
       THEN /\ msg' = [msg EXCEPT ![s] = AmountError]
            /\ UNCHANGED sheet
       ELSE /\ sheet' = append_row_to_sheet(sheet, form_row(widgets[s].form))
            /\ msg' = [msg EXCEPT ![s] = SavedOk]
    /\ pc' = [pc EXCEPT ![s] = "idle"]
    /\ widgets' = [widgets EXCEPT ![s] = NoWidgets]
    /\ UNCHANGED <<pending, runs, cb_in, cb_out>>

\* ------------------------------------------------------------ duplicate
\* script top: df_all is loaded, df_raw is this month's rows, and the button
\* handler picks the last row of df_raw in date order
DuplicateRender(s) ==
    /\ pc[s] = "idle"
    /\ runs < MaxRuns
    /\ runs' = runs + 1
    /\ \E period \in Periods :
        LET df_raw == filter_month_df(load_all_data_from_sheet(sheet), period[1], period[2])
        IN /\ df_raw # <<>>
           /\ \E sorted \in sort_values(df_raw) :
                widgets' = [widgets EXCEPT ![s] =
                    [NoWidgets EXCEPT !.button = "duplicate", !.year = period[1],
                                      !.month = period[2], !.last = <<sorted[Len(sorted)]>>]]
    /\ pc' = [pc EXCEPT ![s] = "rendered"]
    /\ msg' = [msg EXCEPT ![s] = ""]
    /\ UNCHANGED <<sheet, pending, cb_in, cb_out>>

duplicate_row(last) ==
    [date |-> Iso(Today.y, Today.m, Today.d), remark |-> last.remark,
     category |-> last.category, mode |-> last.mode, cash_in |-> last.cash_in,
     cash_out |-> last.cash_out, attachment_path |-> ""]

DuplicateAppend(s) ==
    /\ pc[s] = "rendered"
    /\ widgets[s].button = "duplicate"
    /\ sheet' = append_row_to_sheet(sheet, duplicate_row(widgets[s].last[1]))
    /\ msg' = [msg EXCEPT ![s] = DuplicatedOk]
    /\ pc' = [pc EXCEPT ![s] = "idle"]
    /\ widgets' = [widgets EXCEPT ![s] = NoWidgets]
    /\ UNCHANGED <<pending, runs, cb_in, cb_out>>

\* ------------------------------------------------------------ delete month
\* "Delete ALL entries for this month" up to the point where
\* delete_month_from_sheet has loaded the sheet and computed df_kept
DeleteMonth(s) ==
    /\ pc[s] = "idle"
    /\ runs < MaxRuns
    /\ runs' = runs + 1
    /\ \E period \in Periods, confirm_reset \in BOOLEAN :
        LET df_all_latest == load_all_data_from_sheet(sheet)
        IN IF ~confirm_reset
           THEN /\ msg' = [msg EXCEPT ![s] = TickFirst]
                /\ UNCHANGED <<pc, widgets, pending>>
           ELSE IF df_all_latest = <<>>
           THEN /\ msg' = [msg EXCEPT ![s] = DeletedOk]
                /\ UNCHANGED <<pc, widgets, pending>>
           ELSE /\ pending' = [pending EXCEPT ![s] =
                                 not_month_df(df_all_latest, period[1], period[2])]
                /\ widgets' = [widgets EXCEPT ![s] =
                                 [NoWidgets EXCEPT !.button = "delete", !.year = period[1],
                                                   !.month = period[2]]]
                /\ pc' = [pc EXCEPT ![s] = "saving"]
                /\ msg' = [msg EXCEPT ![s] = ""]
    /\ UNCHANGED <<sheet, cb_in, cb_out>>

\* ------------------------------------------------------------ edit table
editable_cols == <<"date", "remark", "category", "mode", "cash_in", "cash_out">>

\* df_editable[editable_cols]: df_raw with the date column as date objects
df_editable_of(df_raw) ==
    [i \in DOMAIN df_raw |->
        LET dt == to_datetime(df_raw[i].date)
        IN [date |-> IF dt = NaT THEN Null ELSE DateObj(dt.y, dt.m, dt.d),
            remark |-> df_raw[i].remark, category |-> df_raw[i].category,
            mode |-> df_raw[i].mode, cash_in |-> df_raw[i].cash_in,
            cash_out |-> df_raw[i].cash_out]]

\* script top with the edit table shown: df_all is loaded, the editor shows
\* this month's rows and returns them with the user's edits
EditRender(s) ==
    /\ pc[s] = "idle"
    /\ runs < MaxRuns
    /\ runs' = runs + 1
    /\ \E period \in Periods :
        LET df_raw == filter_month_df(load_all_data_from_sheet(sheet), period[1], period[2])
        IN /\ df_raw # <<>>
           /\ \E edited_df \in data_editor(df_editable_of(df_raw)) :
                widgets' = [widgets EXCEPT ![s] =
                    [NoWidgets EXCEPT !.button = "save_table", !.year = period[1],
                                      !.month = period[2], !.edited_df = edited_df]]
    /\ pc' = [pc EXCEPT ![s] = "rendered"]
    /\ msg' = [msg EXCEPT ![s] = ""]
    /\ UNCHANGED <<sheet, pending, cb_in, cb_out>>

\* a check that notices only a month that grew
row_count_grew(idx, edited_df) == Len(idx) > Len(edited_df)

\* len(month_idx) != len(edited_df)
row_count_mismatch(idx, edited_df) == Len(idx) # Len(edited_df)

\* positions counted from the end of idx
pos_in_reversed(idx, i) ==
    IF \E j \in DOMAIN idx : idx[j] = i
    THEN Len(idx) + 1 - (CHOOSE j \in DOMAIN idx : idx[j] = i) ELSE 0

\* the position in idx of row i of the frame, 0 when i is not in idx
pos_in(idx, i) ==
    IF \E j \in DOMAIN idx : idx[j] = i
    THEN CHOOSE j \in DOMAIN idx : idx[j] = i ELSE 0

\* for col in editable_cols: df_all_latest.loc[month_idx, col] = edited_df[col].values
assign_edited(df_all_latest, idx, edited_df) ==
    [i \in DOMAIN df_all_latest |->
        IF pos_in(idx, i) = 0 THEN df_all_latest[i]
        ELSE LET e == edited_df[pos_in(idx, i)]
             IN [df_all_latest[i] EXCEPT !.date = e.date, !.remark = e.remark,
                                         !.category = e.category, !.mode = e.mode,
                                         !.cash_in = e.cash_in, !.cash_out = e.cash_out]]

\* dt2 = pd.to_datetime(df["date"]); df["date"] = dt2.dt.date.astype(str); "NaT" -> ""
\* (the text columns are texts already and the amounts numbers)
renormalize(df) ==
    [i \in DOMAIN df |->
        [df[i] EXCEPT !.date = blank_nat(date_astype_str(to_datetime(@)))]]

\* "Save changes from table" up to the point where the frame to save is computed
SaveTableLoad(s) ==
    /\ pc[s] = "rendered"
    /\ widgets[s].button = "save_table"
    /\ LET df_all_latest == load_all_data_from_sheet(sheet)
           idx == month_idx(df_all_latest, widgets[s].year, widgets[s].month)
       IN IF row_count_mismatch(idx, widgets[s].edited_df)
          THEN /\ msg' = [msg EXCEPT ![s] = MismatchError]
               /\ pc' = [pc EXCEPT ![s] = "idle"]
               /\ widgets' = [widgets EXCEPT ![s] = NoWidgets]
               /\ UNCHANGED pending
          ELSE /\ pending' = [pending EXCEPT ![s] =
                    renormalize(assign_edited(df_all_latest, idx, widgets[s].edited_df))]
               /\ pc' = [pc EXCEPT ![s] = "saving"]
               /\ UNCHANGED <<msg, widgets>>
    /\ UNCHANGED <<sheet, runs, cb_in, cb_out>>

\* ------------------------------------------------------------ import
\* a merge that never strips the month
import_merge_append_only(df_all_latest, norm_df, year, month, replace_existing) ==
    df_all_latest \o norm_df

\* df_all_new of the import handler
import_merge(df_all_latest, norm_df, year, month, replace_existing) ==
    IF replace_existing
    THEN not_month_df(df_all_latest, year, month) \o norm_df
    ELSE df_all_latest \o norm_df

\* "Import file now" up to the point where df_all_new is computed
ImportFile(s) ==
    /\ pc[s] = "idle"
    /\ runs < MaxRuns
    /\ runs' = runs + 1
    /\ \E period \in Periods, import_file \in ImportFiles, replace_existing \in BOOLEAN :
        IF import_file = ""
        THEN /\ msg' = [msg EXCEPT ![s] = ChooseFile]
             /\ UNCHANGED <<pc, widgets, pending>>
        ELSE LET norm_df == normalize_imported_dataframe(read_csv(import_file))
                 df_all_new == import_merge(load_all_data_from_sheet(sheet), norm_df,
                                            period[1], period[2], replace_existing)
             IN IF no_valid_dates(norm_df)
                THEN /\ msg' = [msg EXCEPT ![s] = NoValidDates]
                     /\ UNCHANGED <<pc, widgets, pending>>
                ELSE /\ pending' = [pending EXCEPT ![s] = df_all_new]
                     /\ widgets' = [widgets EXCEPT ![s] =
                            [NoWidgets EXCEPT !.button = "import", !.year = period[1],
                                              !.month = period[2],
                                              !.import_file = import_file,
                                              !.replace_existing = replace_existing]]
                     /\ pc' = [pc EXCEPT ![s] = "saving"]
                     /\ msg' = [msg EXCEPT ![s] = ""]
    /\ UNCHANGED <<sheet, cb_in, cb_out>>

\* ------------------------------------------------------------ overwrite
success_of(button) ==
    CASE button = "delete" -> DeletedOk
      [] button = "save_table" -> TableOk
      [] button = "import" -> ImportedOk

\* an overwrite that backs off when the worksheet holds more rows than a frame
\* made by deleting or editing rows of the loaded one can account for
SaveUnlessGrown(s) ==
    /\ pc[s] = "saving"
    /\ IF widgets[s].button \in {"delete", "save_table"} /\ Len(sheet) > Len(pending[s])
       THEN /\ sheet' = sheet
            /\ msg' = [msg EXCEPT ![s] = MismatchError]
       ELSE /\ sheet' = save_all_data_to_sheet(pending[s])
            /\ msg' = [msg EXCEPT ![s] = success_of(widgets[s].button)]
    /\ pc' = [pc EXCEPT ![s] = "idle"]
    /\ widgets' = [widgets EXCEPT ![s] = NoWidgets]
    /\ pending' = [pending EXCEPT ![s] = <<>>]
    /\ UNCHANGED <<runs, cb_in, cb_out>>

\* save_all_data_to_sheet(...) of the three handlers, then st.success, st.rerun
Save(s) ==
    /\ pc[s] = "saving"
    /\ sheet' = save_all_data_to_sheet(pending[s])
    /\ msg' = [msg EXCEPT ![s] = success_of(widgets[s].button)]
    /\ pc' = [pc EXCEPT ![s] = "idle"]
    /\ widgets' = [widgets EXCEPT ![s] = NoWidgets]
    /\ pending' = [pending EXCEPT ![s] = <<>>]
    /\ UNCHANGED <<runs, cb_in, cb_out>>

\* ------------------------------------------------------------ the sessions
NoView == [done |-> FALSE]

Init ==
    /\ sheet \in InitialSheets
    /\ pc = [s \in Sessions |-> "idle"]
    /\ widgets = [s \in Sessions |-> NoWidgets]
    /\ pending = [s \in Sessions |-> <<>>]
    /\ msg = [s \in Sessions |-> ""]
    /\ runs = 0
    /\ cb_in = NoView
    /\ cb_out = NoView

Next ==
    \E s \in Sessions :
        \/ AddRender(s)
        \/ AddEntry(s)
        \/ DuplicateRender(s)
        \/ DuplicateAppend(s)
        \/ DeleteMonth(s)
        \/ EditRender(s)
        \/ SaveTableLoad(s)
        \/ ImportFile(s)
        \/ Save(s)

Spec == Init /\ [][Next]_vars

\* ------------------------------------------------------------ cashbook view
\* the datasets the view is computed from, as load_all_data_from_sheet returns them
CbDates == {Iso(2024, 12, 1), Iso(2025, 1, 1), Iso(2025, 1, 2), Iso(2025, 2, 1), EmptyStr}

CbRows ==
    {[date |-> dc, remark |-> a[1], category |-> "Other", mode |-> "Cash",
      cash_in |-> a[2], cash_out |-> a[3], attachment_path |-> ""] :
        dc \in CbDates, a \in {<<"a", 2, 0>>, <<"b", 0, 1>>}}

CbDatasets == UNION {[1..n -> CbRows] : n \in 0..MaxCbRows}

CbPeriods == {<<2024, 12>>, <<2025, 1>>, <<2025, 2>>}

\* the "Carried forward" number input: left at its value, or set by the user
CbOverrides == {<<>>, <<10>>}

InitCB ==
    /\ sheet = <<>>
    /\ pc = [s \in Sessions |-> "idle"]
    /\ widgets = [s \in Sessions |-> NoWidgets]
    /\ pending = [s \in Sessions |-> <<>>]
    /\ msg = [s \in Sessions |-> ""]
    /\ runs = 0
    /\ cb_in \in [df_all : CbDatasets, period : CbPeriods, override : CbOverrides]
    /\ cb_out = NoView

\* script top to the summary: opening balance, df_raw, compute_cashbook
ViewCashbook ==
    /\ ~cb_out.done
    /\ LET year == cb_in.period[1]
           month == cb_in.period[2]
           prev == get_previous_period(year, month)
           df_prev_month == filter_month_df(cb_in.df_all, prev[1], prev[2])
           df_raw == filter_month_df(cb_in.df_all, year, month)
       IN \E sorted_prev \in sort_values(df_prev_month), sorted \in sort_values(df_raw) :
            LET auto == auto_opening(cb_in.df_all, year, month, sorted_prev)
                opening_balance == IF cb_in.override = <<>> THEN auto
                                   ELSE cb_in.override[1]
                cb == compute_cashbook(df_raw, opening_balance, sorted)
            IN cb_out' = [done |-> TRUE, auto_opening |-> auto,
                          opening_balance |-> opening_balance, df_raw |-> df_raw,
                          df_prev_month |-> df_prev_month,
                          rows |-> cb.rows, balance |-> cb.balance,
                          total_in |-> cb.total_in, total_out |-> cb.total_out,
                          final_balance |-> cb.final_balance]
    /\ UNCHANGED <<sheet, pc, widgets, pending, msg, runs, cb_in>>

NextCB == ViewCashbook

SpecCB == InitCB /\ [][NextCB]_vars

\* ============================================================ claims
\* the step in which session s leaves the script position `from` for `to`
Moves(s, from, to) == pc[s] = from /\ pc'[s] = to

\* the rows of df whose date is not a date of (year, month), in their order,
\* read off the date cells themselves
RECURSIVE RowsOutside(_, _, _)
RowsOutside(df, year, month) ==
    IF df = <<>> THEN <<>>
    ELSE LET init == RowsOutside(SubSeq(df, 1, Len(df) - 1), year, month)
             r == df[Len(df)]
         IN IF r.date.k \in {"iso", "obj"} /\ r.date.y = year /\ r.date.m = month
            THEN init ELSE Append(init, r)

\* the rows of df dated in (year, month), in their order
RowsInside(df, year, month) ==
    LET at == {i \in DOMAIN df : /\ df[i].date.k \in {"iso", "obj"}
                                 /\ df[i].date.y = year /\ df[i].date.m = month}
        RECURSIVE take(_)
        take(i) == IF i > Len(df) THEN <<>>
                   ELSE (IF i \in at THEN <<df[i]>> ELSE <<>>) \o take(i + 1)
    IN take(1)

\* C1: when "Save changes from table" finds that the month has, in the sheet as
\* reloaded, a number of rows other than the number of edited rows, it reports
\* the row-count conflict, nothing is queued for writing and the sheet is as it was.
C1_ConflictChangesNothing ==
    [][\A s \in Sessions :
        (/\ pc[s] = "rendered" /\ pc'[s] # "rendered"
         /\ widgets[s].button = "save_table"
         /\ Len(RowsInside(load_all_data_from_sheet(sheet),
                           widgets[s].year, widgets[s].month))
                # Len(widgets[s].edited_df))
        => (/\ msg'[s] = MismatchError
            /\ pc'[s] = "idle"
            /\ pending'[s] = <<>>
            /\ sheet' = sheet)]_vars

\* C1 witness: a session was told of the conflict while the sheet holds rows
C1_Witness ==
    \E s \in Sessions : msg[s] = MismatchError /\ pc[s] = "idle" /\ sheet # <<>>

\* every date of the uploaded table is unparseable or missing
BatchWithoutDates(raw_df) ==
    LET at == {i \in DOMAIN raw_df.columns : raw_df.columns[i] \in {"Date", "date"}}
    IN \A n \in DOMAIN raw_df.data :
         \A i \in at : raw_df.data[n][i].k \notin {"iso", "obj"}

\* C2: an import whose batch has no row with a parseable date is rejected: no
\* session ever holds such a batch queued for writing.
C2_UndatedBatchRejected ==
    \A s \in Sessions :
        (pc[s] = "saving" /\ widgets[s].button = "import")
            => ~BatchWithoutDates(read_csv(widgets[s].import_file))

\* cash_in - cash_out summed over the rows of df that satisfy keep
Net(df, keep(_)) ==
    LET RECURSIVE net(_)
        net(i) == IF i = 0 THEN 0
                  ELSE net(i - 1) + (IF keep(df[i]) THEN df[i].cash_in - df[i].cash_out ELSE 0)
    IN net(Len(df))

\* the column col summed over the rows of df, first row first
Total(df, col) ==
    LET RECURSIVE tot(_)
        tot(i) == IF i = 0 THEN 0 ELSE tot(i - 1) + df[i][col]
    IN tot(Len(df))

\* the row is dated in a month before (year, month)
DatedBefore(r, year, month) ==
    /\ r.date.k \in {"iso", "obj"}
    /\ r.date.y < year \/ (r.date.y = year /\ r.date.m < month)

\* C3: the opening balance the script derives for a period is the net of all
\* transactions dated in any earlier period (the previous period's final
\* balance, its own carried-in opening balance included).
C3_OpeningIsChained ==
    cb_out.done =>
        cb_out.auto_opening =
            Net(cb_in.df_all, LAMBDA r : DatedBefore(r, cb_in.period[1], cb_in.period[2]))

\* C10: final_balance = opening_balance + total_in - total_out, the totals being
\* those of the period's rows; with rows it is the last row's running balance,
\* and without rows the cashbook is empty, the totals are 0 and final_balance
\* is the opening balance.
C10_FinalBalance ==
    cb_out.done =>
        LET rows_in == Total(cb_out.df_raw, "cash_in")
            rows_out == Total(cb_out.df_raw, "cash_out")
        IN /\ cb_out.final_balance = cb_out.opening_balance + cb_out.total_in - cb_out.total_out
           /\ cb_out.total_in = rows_in
           /\ cb_out.total_out = rows_out
           /\ cb_out.df_raw # <<>> =>
                /\ Len(cb_out.rows) = Len(cb_out.df_raw)
                /\ cb_out.balance[Len(cb_out.rows)] = cb_out.final_balance
           /\ cb_out.df_raw = <<>> =>
                /\ cb_out.rows = <<>>
                /\ cb_out.total_in = 0 /\ cb_out.total_out = 0
                /\ cb_out.final_balance = cb_out.opening_balance

\* C10 witness: a period with rows on two dates, money in and money out, shown
\* with an opening balance set by the user
C10_Witness ==
    /\ cb_out.done
    /\ Len(cb_out.rows) >= 2
    /\ cb_out.total_in > 0 /\ cb_out.total_out > 0
    /\ cb_out.opening_balance = 10
    /\ cb_out.rows[1].date # cb_out.rows[2].date

\* C4: an import into period P leaves every other period as it was: for every
\* other period Q the frame to be written holds, for Q, the rows the reloaded
\* sheet holds for Q, whatever the dates of the imported rows.
C4_ImportLeavesOtherPeriods ==
    [][\A s \in Sessions :
        (Moves(s, "idle", "saving") /\ widgets'[s].button = "import")
        => \A q \in Periods :
              q # <<widgets'[s].year, widgets'[s].month>>
              => RowsInside(pending'[s], q[1], q[2])
                    = RowsInside(load_all_data_from_sheet(sheet), q[1], q[2])]_vars

\* C5: a bulk edit of period P that passes the count check leaves every other
\* period as it was, also when an edited row's date was changed, and writes
\* back every row outside P (rows without a parseable date included) with all
\* its fields unchanged.
C5_EditLeavesOtherRows ==
    [][\A s \in Sessions :
        (Moves(s, "rendered", "saving") /\ widgets[s].button = "save_table")
        => LET D == load_all_data_from_sheet(sheet)
               y == widgets[s].year
               m == widgets[s].month
           IN /\ \A q \in Periods :
                    q # <<y, m>> => RowsInside(pending'[s], q[1], q[2]) = RowsInside(D, q[1], q[2])
              /\ Len(pending'[s]) = Len(D)
              /\ \A i \in DOMAIN D :
                    RowsInside(<<D[i]>>, y, m) = <<>> => pending'[s][i] = D[i]]_vars

\* C6: "Delete ALL entries for this month" works on the sheet as reloaded by the
\* handler: the frame it queues is the reloaded rows not dated in the month, in
\* their order, the write stores exactly that frame, and the sheet then holds no
\* row of the month.
C6_DeleteKeepsTheRest ==
    [][\A s \in Sessions :
        /\ (Moves(s, "idle", "saving") /\ widgets'[s].button = "delete")
            => pending'[s] = RowsOutside(load_all_data_from_sheet(sheet),
                                         widgets'[s].year, widgets'[s].month)
        /\ (Moves(s, "saving", "idle") /\ widgets[s].button = "delete")
            => /\ sheet' = pending[s]
               /\ msg'[s] = DeletedOk
               /\ RowsInside(load_all_data_from_sheet(sheet'),
                             widgets[s].year, widgets[s].month) = <<>>]_vars

\* C6 witness: a delete is about to write back fewer rows than the sheet holds,
\* among them a row of another period and a row without a date
C6_Witness ==
    \E s \in Sessions :
        /\ pc[s] = "saving" /\ widgets[s].button = "delete"
        /\ Len(pending[s]) < Len(sheet)
        /\ \E i \in DOMAIN pending[s] : pending[s][i].date.k = "iso"
        /\ \E i \in DOMAIN pending[s] : pending[s][i].date.k # "iso"

\* the number of rows of (year, month) among the first i rows of df
RankIn(df, year, month, i) == Len(RowsInside(SubSeq(df, 1, i), year, month))

\* the text the sheet gets for a date cell of the editor
EditedDateText(c) == IF c.k = "obj" THEN Iso(c.y, c.m, c.d) ELSE EmptyStr

\* C7: a bulk edit that passes the count check keeps the length and the order of
\* the reloaded frame, puts the editable fields of the i-th edited row on the
\* i-th row of the period and keeps that row's attachment reference; the write
\* stores that frame.
C7_EditByPosition ==
    [][\A s \in Sessions :
        /\ (Moves(s, "rendered", "saving") /\ widgets[s].button = "save_table")
            => LET D == load_all_data_from_sheet(sheet)
                   E == widgets[s].edited_df
                   y == widgets[s].year
                   m == widgets[s].month
                   out == pending'[s]
               IN /\ Len(out) = Len(D)
                  /\ \A i \in DOMAIN D :
                        /\ out[i].attachment_path = D[i].attachment_path
                        /\ IF RowsInside(<<D[i]>>, y, m) # <<>>
                           THEN LET e == E[RankIn(D, y, m, i)]
                                IN /\ out[i].date = EditedDateText(e.date)
                                   /\ out[i].remark = e.remark
                                   /\ out[i].category = e.category
                                   /\ out[i].mode = e.mode
                                   /\ out[i].cash_in = e.cash_in
                                   /\ out[i].cash_out = e.cash_out
                           ELSE /\ out[i].remark = D[i].remark
                                /\ out[i].cash_in = D[i].cash_in
                                /\ out[i].cash_out = D[i].cash_out
        /\ (Moves(s, "saving", "idle") /\ widgets[s].button = "save_table")
            => sheet' = pending[s] /\ msg'[s] = TableOk]_vars

\* C7 witness: an edit of a month of two rows, the second of them changed, one
\* of them with an attachment, is about to be written
C7_Witness ==
    \E s \in Sessions :
        /\ pc[s] = "saving" /\ widgets[s].button = "save_table"
        /\ Len(widgets[s].edited_df) = 2
        /\ widgets[s].edited_df[2].cash_in = 9
        /\ \E i \in DOMAIN pending[s] :
              pending[s][i].cash_in = 9 /\ pending[s][i].attachment_path # ""

\* C8: the frame an accepted import queues is, in replace mode, the reloaded
\* rows not dated in the target period, in their order, followed by the
\* normalized batch, and in append mode the reloaded frame followed by the
\* normalized batch; the write stores that frame.
C8_ImportMerge ==
    [][\A s \in Sessions :
        /\ (Moves(s, "idle", "saving") /\ widgets'[s].button = "import")
            => LET D == load_all_data_from_sheet(sheet)
                   N == normalize_imported_dataframe(read_csv(widgets'[s].import_file))
                   out == pending'[s]
                   head == SubSeq(out, 1, Len(out) - Len(N))
               IN /\ Len(out) >= Len(N)
                  /\ SubSeq(out, Len(out) - Len(N) + 1, Len(out)) = N
                  /\ widgets'[s].replace_existing
                        => /\ head = RowsOutside(D, widgets'[s].year, widgets'[s].month)
                           /\ RowsInside(head, widgets'[s].year, widgets'[s].month) = <<>>
                  /\ ~widgets'[s].replace_existing => head = D
        /\ (Moves(s, "saving", "idle") /\ widgets[s].button = "import")
            => sheet' = pending[s] /\ msg'[s] = ImportedOk]_vars

\* C8 witness: a replace import is about to write a frame from which rows of
\* the target period were stripped and in which a row of another period stays
C8_Witness ==
    \E s \in Sessions :
        /\ pc[s] = "saving" /\ widgets[s].button = "import"
        /\ widgets[s].replace_existing
        /\ LET N == normalize_imported_dataframe(read_csv(widgets[s].import_file))
           IN /\ Len(pending[s]) > Len(N)
              /\ Len(pending[s]) < Len(sheet) + Len(N)

\* C9: "Save transaction" with an amount <= 0 reports the amount error and
\* leaves the sheet as it is; with an amount > 0 the sheet is afterwards its
\* rows as they were followed by one new row, in which one of cash_in and
\* cash_out is the amount and the other is 0.
C9_AddAppendsOneRow ==
    [][\A s \in Sessions :
        (Moves(s, "rendered", "idle") /\ widgets[s].button = "add")
        => LET amount == widgets[s].form.amount
           IN IF amount <= 0
              THEN msg'[s] = AmountError /\ sheet' = sheet
              ELSE /\ msg'[s] = SavedOk
                   /\ Len(sheet') = Len(sheet) + 1
                   /\ SubSeq(sheet', 1, Len(sheet)) = sheet
                   /\ LET r == sheet'[Len(sheet')]
                      IN \/ r.cash_in = amount /\ r.cash_out = 0
                         \/ r.cash_in = 0 /\ r.cash_out = amount]_vars

\* C9 witness: one session was refused a zero amount, the other had its
\* transaction appended behind the rows already there
C9_Witness ==
    \E s, t \in Sessions :
        /\ msg[s] = AmountError
        /\ msg[t] = SavedOk
        /\ Len(sheet) >= 2

\* the day count of a dated row, for comparing dates
DayNumber(r) == (r.date.y * 12 + r.date.m) * 31 + r.date.d

\* the rows of df by date, earliest first, rows of one date in the order they
\* have in df
RECURSIVE InDateOrder(_)
InDateOrder(df) ==
    IF df = <<>> THEN <<>>
    ELSE LET first == CHOOSE i \in DOMAIN df : \A j \in DOMAIN df :
                          \/ DayNumber(df[i]) < DayNumber(df[j])
                          \/ DayNumber(df[i]) = DayNumber(df[j]) /\ i <= j
             rest == [k \in 1..(Len(df) - 1) |-> IF k < first THEN df[k] ELSE df[k + 1]]
         IN <<df[first]>> \o InDateOrder(rest)

\* C11: the cashbook lists the period's rows by ascending date, rows of one date
\* in the order they had in the input, and the balance of the k-th listed row is
\* the opening balance plus cash_in minus cash_out summed over listed rows 1..k.
C11_StableRunningBalance ==
    (cb_out.done /\ cb_out.df_raw # <<>>) =>
        /\ cb_out.rows = InDateOrder(cb_out.df_raw)
        /\ \A k \in DOMAIN cb_out.rows :
              cb_out.balance[k] = cb_out.opening_balance
                                    + Total(SubSeq(cb_out.rows, 1, k), "cash_in")
                                    - Total(SubSeq(cb_out.rows, 1, k), "cash_out")

\* the periods a date of the datasets can fall in, and their neighbours
AllPeriods == (2023..2026) \X (1..12)

\* C12: the period filter partitions the dated rows: the subset of (year, month)
\* is the rows whose date cell is a date of that year and month, in their
\* order, so a dated row is in the subset of its own period and of no other,
\* and a row whose date is empty or no date is in the subset of no period.
C12_PeriodPartition ==
    cb_out.done =>
        LET D == cb_in.df_all
            prev == get_previous_period(cb_in.period[1], cb_in.period[2])
        IN /\ cb_out.df_raw = RowsInside(D, cb_in.period[1], cb_in.period[2])
           /\ cb_out.df_prev_month = RowsInside(D, prev[1], prev[2])
           /\ \A i \in DOMAIN D :
                 LET own == {p \in AllPeriods : filter_month_df(<<D[i]>>, p[1], p[2]) # <<>>}
                 IN IF D[i].date.k \in {"iso", "obj"}
                    THEN own = {<<D[i].date.y, D[i].date.m>>}
                    ELSE own = {}

\* C12 witness: a dataset with a row of the period shown, a row of the period
\* before it and a row without a date
C12_Witness ==
    /\ cb_out.done
    /\ cb_out.df_raw # <<>>
    /\ cb_out.df_prev_month # <<>>
    /\ \E i \in DOMAIN cb_in.df_all : cb_in.df_all[i].date.k = "empty"

\* the header spellings of the uploaded files that stand for each field
HeadersFor ==
    [date |-> {"Date", "date"}, remark |-> {"Remark", "narration"},
     category |-> {"Category"}, mode |-> {"Payment Mode"}, cash_in |-> {"Cash In"},
     cash_out |-> {"Cash Out"}, attachment_path |-> {"File"}]

\* the uploaded table has no column that stands for the field
Lacks(raw_df, field) ==
    \A c \in DOMAIN raw_df.columns : raw_df.columns[c] \notin HeadersFor[field]

\* the value a normalized row is to get for a field the file does not carry
FieldDefault ==
    [remark |-> "", category |-> "Other", mode |-> "Cash", cash_in |-> 0,
     cash_out |-> 0, attachment_path |-> ""]

\* C13: the rows an import is about to write for the uploaded file carry the
\* canonical fields only (a column such as "Notes" is gone), carry under
\* cash_in the values of a column headed "Cash In", and carry for every field
\* the file has no column for that field's default: mode "Cash", category
\* "Other", empty remark, zero cash_in and cash_out, empty attachment.
C13_ImportDefaults ==
    \A s \in Sessions :
        (pc[s] = "saving" /\ widgets[s].button = "import")
        => LET raw_df == read_csv(widgets[s].import_file)
               n == Len(raw_df.data)
               out == SubSeq(pending[s], Len(pending[s]) - n + 1, Len(pending[s]))
           IN /\ Len(pending[s]) >= n
              /\ \A i \in 1..n :
                    /\ DOMAIN out[i] = {COLUMNS[k] : k \in DOMAIN COLUMNS}
                    /\ \A c \in DOMAIN raw_df.columns :
                          raw_df.columns[c] = "Cash In" => out[i].cash_in = raw_df.data[i][c]
                    /\ \A f \in DOMAIN FieldDefault :
                          Lacks(raw_df, f) => out[i][f] = FieldDefault[f]

\* C14: nothing guards the overwrite of a handler against what other sessions
\* wrote after the handler loaded the sheet: a session that has computed its
\* frame can always write it, the write replaces whatever the worksheet holds
\* by exactly that frame and reports success, and what the other session was
\* told stays on its screen. So a row another session appended, and was told
\* is saved, after the load is gone after the write (the witness).
C14_OverwriteUnchecked ==
    [][\A s \in Sessions :
        /\ pc[s] = "saving" => ENABLED Save(s)
        /\ Moves(s, "saving", "idle")
            => /\ sheet' = pending[s]
               /\ msg'[s] = success_of(widgets[s].button)
               /\ \A t \in Sessions \ {s} : msg'[t] = msg[t]]_vars

\* C14 witness: two script runs in all, one per session; one session was told
\* its import is saved, the other that its delete is done, and the worksheet
\* holds none of the imported rows, of which a delete of one month can remove
\* at most one: the delete loaded the sheet before the import was written and
\* overwrote it afterwards
C14_Witness ==
    \E s, t \in Sessions :
        /\ s # t
        /\ runs = 2
        /\ pc[s] = "idle" /\ pc[t] = "idle"
        /\ msg[s] = DeletedOk
        /\ msg[t] = ImportedOk
        /\ \A i \in DOMAIN sheet : sheet[i].remark \notin {"fuel", "rent", "water"}

\* C15: whenever a bulk edit of a period passes the count check and is queued
\* for writing, the i-th edited row goes onto the transaction that the edit
\* table showed at position i, whatever other sessions did to the period's rows
\* since the table was rendered: the i-th row of the period in the sheet as
\* reloaded has the remark, category, mode and cash_out the i-th edited row
\* has (the fields the editor's user left as shown).
C15_EditHitsDisplayedRow ==
    [][\A s \in Sessions :
        (Moves(s, "rendered", "saving") /\ widgets[s].button = "save_table")
        => LET shown == widgets[s].edited_df
               now == RowsInside(load_all_data_from_sheet(sheet),
                                 widgets[s].year, widgets[s].month)
           IN \A i \in DOMAIN shown :
                 /\ now[i].remark = shown[i].remark
                 /\ now[i].category = shown[i].category
                 /\ now[i].mode = shown[i].mode
                 /\ now[i].cash_out = shown[i].cash_out]_vars

====
